---- MODULE Spec2Model ----
(***************************************************************************)
(* A model of the data-access layer of cloud-lrs:                          *)
(*   - src/lib/lrs-users/api.js : getTotalActivities (monthly series),     *)
(*     getDataUses, saveUserOptOut, getOrCreateOptOutDetails,              *)
(*     isStudentOptedOut, getOrCreateUser;                                 *)
(*   - src/unnamed/part_000 (lrs-course) : getOrCreateCourse;              *)
(*   - src/unnamed/part_001 (lrs-tenant) : getTenant.                      *)
(* Six specifications share the variables:                                  *)
(*   SpecSeries  one call of getTotalActivities, its while loop step by    *)
(*               step;                                                     *)
(*   Spec        concurrent saveUserOptOut calls against the opt_outs      *)
(*               table;                                                    *)
(*   SpecReads   getDataUses and isStudentOptedOut against every opt_outs  *)
(*               table the store can hold;                                 *)
(*   SpecUsers   concurrent getOrCreateUser calls against the users table; *)
(*   SpecCourses concurrent getOrCreateCourse calls against the courses    *)
(*               table;                                                    *)
(*   SpecTenants getTenant against every tenants table over two rows.      *)
(***************************************************************************)
EXTENDS Integers, Sequences, FiniteSets, TLC

\* ------------------------------------------------------------------ bounds
\* The largest number of rows the monthly query returns.
MaxRows == 2
\* The largest count(*) of one month.
MaxTotal == 2
\* The while loop of getTotalActivities is cut off after this many entries
\* (every series of a terminating run over Years is shorter).
MaxSeriesLen == 30
\* The number of requests in flight at the same time.
NumCalls == 2

\* ------------------------------------------------------------------ values
Null == "null"
NoErr == [code |-> 0, msg |-> ""]
StoreMsg == "store failure"
Err(c, m) == [code |-> c, msg |-> m]

Years == {2023, 2024}
MonthNames == <<"January", "February", "March", "April", "May", "June", "July",
                "August", "September", "October", "November", "December">>

VARIABLES
  \* getTotalActivities
  pc,                \* "idle" | "query" | "loop" | "done"
  results,           \* the rows of the monthly query
  now,               \* moment(): the calendar month in which the call runs, <<year, month>>
  currentYear, currentMonth, lastActivityYear, lastActivityMonth,
  totalActivities,   \* the series built so far
  cbErr, cbValue,    \* what getTotalActivities's callback was invoked with
  cbCount,           \* how often it was invoked
  \* the store and the requests against it
  optOuts,           \* the opt_outs table: (user_id, credential_id) -> number of rows
  optCalls,          \* the saveUserOptOut calls in flight, one per slot
  usersTable,        \* the users table: (external_id, tenant_id) -> the rows of that key
  userCalls,         \* the getOrCreateUser calls in flight, one per slot
  tenantsTable,      \* the tenants table: a set of rows
  tenantCall,        \* the getTenant call in flight
  coursesTable,      \* the courses table: (canvas_course_id, tenant_id) -> the rows of that key
  courseCalls,       \* the getOrCreateCourse calls in flight, one per slot
  event              \* what the last step showed its caller: a callback, a throw, a log

seriesVars == <<pc, results, now, currentYear, currentMonth, lastActivityYear,
                lastActivityMonth, totalActivities, cbErr, cbValue, cbCount>>

optVars == <<optOuts, optCalls>>
userVars == <<usersTable, userCalls>>
tenantVars == <<tenantsTable, tenantCall>>
courseVars == <<coursesTable, courseCalls>>
storeVars == <<optVars, userVars, tenantVars, courseVars, event>>

vars == <<seriesVars, storeVars>>

\* ------------------------------------------------- getTotalActivities
\* (year, month) as a count of months.
MonthIndex(y, m) == y * 12 + (m - 1)

\* The rows the query can return: GROUP BY year, month ORDER BY year, month ASC
\* gives distinct, ascending (year, month), each with count(*) >= 1.
Row(y, m, t) == [year |-> y, month |-> m, total |-> t]
\* The months that have activity: the two ends of a year and its middle.
RowMonths == {1, 2, 6, 11, 12}
Rows == {Row(y, m, t) : y \in Years, m \in RowMonths, t \in 1..MaxTotal}
Ascending(rs) ==
  \A i \in 1..(Len(rs) - 1) :
    MonthIndex(rs[i].year, rs[i].month) < MonthIndex(rs[i + 1].year, rs[i + 1].month)
RECURSIVE SeqsUpTo(_, _)
SeqsUpTo(S, n) ==
  IF n = 0 THEN {<<>>}
  ELSE LET shorter == SeqsUpTo(S, n - 1)
       IN shorter \cup {Append(s, x) : s \in {t \in shorter : Len(t) = n - 1}, x \in S}
QueryResults == {rs \in SeqsUpTo(Rows, MaxRows) : Ascending(rs)}

\* _.find(results, {year: y, month: m}): the first matching row, or undefined.
\* Here the index of that row, 0 for undefined.
Find(rs, y, m) ==
  LET hits == {i \in 1..Len(rs) : rs[i].year = y /\ rs[i].month = m}
  IN IF hits = {} THEN 0
     ELSE CHOOSE i \in hits : \A j \in hits : i <= j

\* moment(y + '-' + m + '-1', 'YYYY-M-D').format('MMMM YYYY')
FormatPeriod(y, m) == <<MonthNames[m], y>>

\* One entry of the series (the object pushed in the loop body).
SeriesEntry(rs, y, m, clock) ==
  LET month == Find(rs, y, m)
  IN [period  |-> FormatPeriod(y, m),
      total   |-> IF month # 0 THEN rs[month].total ELSE 0,
      current |-> FormatPeriod(clock[1], clock[2]) = FormatPeriod(y, m)]

\* var lastActivityMonth = parseInt(results[results.length - 1].month) + 1
LoopBoundMonth(rs) == rs[Len(rs)].month + 1

\* The months the clock can show during a call.
Clocks == {<<2023, 12>>, <<2024, 1>>}

\* getTotalActivities(ctx, callback) up to the query being issued.
getTotalActivities ==
  /\ pc = "idle"
  /\ \E hasUser \in BOOLEAN :
       IF ~hasUser
       THEN /\ pc' = "done"
            /\ cbErr' = Err(500, "Prevented getting the total activities per month for the current user")
            /\ cbValue' = Null
            /\ cbCount' = cbCount + 1
       ELSE /\ pc' = "query"
            /\ UNCHANGED <<cbErr, cbValue, cbCount>>
  /\ now' \in Clocks
  /\ UNCHANGED <<results, currentYear, currentMonth, lastActivityYear,
                 lastActivityMonth, totalActivities>>
  /\ UNCHANGED storeVars

\* The query failed: callback({code: 500, msg: err.message}).
QueryFailed ==
  /\ pc = "query"
  /\ pc' = "done"
  /\ cbErr' = Err(500, StoreMsg)
  /\ cbValue' = Null
  /\ cbCount' = cbCount + 1
  /\ UNCHANGED <<results, now, currentYear, currentMonth, lastActivityYear,
                 lastActivityMonth, totalActivities>>
  /\ UNCHANGED storeVars

\* A test that also takes a single row for an empty result.
NoRowsOrOne(rs) == Len(rs) <= 1
\* if (results.length === 0) { return callback(null, []); }
NoRows(rs) == Len(rs) = 0

\* The query returned rows: an empty result is answered at once, otherwise the
\* loop variables are set.
QueryComplete ==
  /\ pc = "query"
  /\ \E rs \in QueryResults :
       /\ results' = rs
       /\ IF NoRows(rs)
          THEN /\ pc' = "done"
               /\ cbErr' = NoErr
               /\ cbValue' = <<>>
               /\ cbCount' = cbCount + 1
               /\ UNCHANGED <<currentYear, currentMonth, lastActivityYear,
                              lastActivityMonth, totalActivities>>
          ELSE /\ pc' = "loop"
               /\ totalActivities' = <<>>
               /\ currentYear' = rs[1].year
               /\ currentMonth' = rs[1].month
               /\ lastActivityMonth' = LoopBoundMonth(rs)
               /\ lastActivityYear' = rs[Len(rs)].year
               /\ UNCHANGED <<cbErr, cbValue, cbCount>>
  /\ UNCHANGED now
  /\ UNCHANGED storeVars

\* while (currentYear !== lastActivityYear || currentMonth !== lastActivityMonth)
LoopCondition == currentYear # lastActivityYear \/ currentMonth # lastActivityMonth

\* One iteration of the while loop.
LoopStep ==
  /\ pc = "loop"
  /\ LoopCondition
  /\ Len(totalActivities) < MaxSeriesLen
  /\ totalActivities' =
       Append(totalActivities, SeriesEntry(results, currentYear, currentMonth, now))
  /\ IF currentMonth = 12
     THEN currentMonth' = 1 /\ currentYear' = currentYear + 1
     ELSE currentMonth' = currentMonth + 1 /\ UNCHANGED currentYear
  /\ UNCHANGED <<pc, results, now, lastActivityYear, lastActivityMonth,
                 cbErr, cbValue, cbCount>>
  /\ UNCHANGED storeVars

\* The loop condition is false: callback(null, totalActivities).
LoopExit ==
  /\ pc = "loop"
  /\ ~LoopCondition
  /\ pc' = "done"
  /\ cbErr' = NoErr
  /\ cbValue' = totalActivities
  /\ cbCount' = cbCount + 1
  /\ UNCHANGED <<results, now, currentYear, currentMonth, lastActivityYear,
                 lastActivityMonth, totalActivities>>
  /\ UNCHANGED storeVars

InitSeries ==
  /\ pc = "idle"
  /\ results = <<>>
  /\ now = <<0, 0>>
  /\ currentYear = 0 /\ currentMonth = 0
  /\ lastActivityYear = 0 /\ lastActivityMonth = 0
  /\ totalActivities = <<>>
  /\ cbErr = NoErr /\ cbValue = Null /\ cbCount = 0

NextSeries ==
  \/ getTotalActivities
  \/ QueryFailed
  \/ QueryComplete
  \/ LoopStep
  \/ LoopExit

\* ------------------------------------------------- the store
Tenants == {"t1", "t2"}
\* The users that exist while opt-outs are saved and data uses are listed.
UserRows == {[id |-> "u1", tenant_id |-> "t1"], [id |-> "u2", tenant_id |-> "t2"]}
UserIds == {u.id : u \in UserRows}
\* The credentials table; this layer only reads it.
Credentials ==
  << [id |-> 1, tenant_id |-> "t1", datashare |-> TRUE,
      name |-> "project 1", description |-> "own tenant, shared", anonymous |-> FALSE],
     [id |-> 2, tenant_id |-> "t1", datashare |-> FALSE,
      name |-> "project 2", description |-> "own tenant, not shared", anonymous |-> TRUE],
     [id |-> 3, tenant_id |-> Null, datashare |-> FALSE,
      name |-> "project 3", description |-> "every tenant", anonymous |-> FALSE] >>
CredIds == 1..Len(Credentials)
\* dataUse.id as sent by a client: the credentials getDataUses lists to a user
\* of tenant t1 (credential 2 is listed to nobody).
DataUseIds == {1, 3}
OptOutKeys == UserIds \X CredIds

\* The uniqueness constraint on opt_outs' natural key (user_id, credential_id):
\* an insert of a second row for a pair is refused by the store.
UniqueViolation(t, u, c) == t[<<u, c>>] >= 1
\* INSERT INTO opt_outs: one more row for the pair.
InsertOptOut(t, u, c) == [t EXCEPT ![<<u, c>>] = @ + 1]
\* DELETE FROM opt_outs WHERE user_id = u AND credential_id = c: every row of the pair.
DestroyOptOut(t, u, c) == [t EXCEPT ![<<u, c>>] = 0]
\* A where clause that names the user only.
FindOptOutOfUser(t, u, c) == \E k \in OptOutKeys : k[1] = u /\ t[k] > 0
\* findOrCreate's SELECT with options.where = {user_id: u, credential_id: c}
\* finds a row.
FindOptOut(t, u, c) == t[<<u, c>>] > 0

\* ------------------------------------------------- events
NoEvent == [kind |-> "none", op |-> ""]
\* A step of saveUserOptOut call i that its caller or the log can see.
\*   kind      "callback" (the callback was invoked with err), "threw" (an
\*             exception left the handler, no callback), "logged" (log only),
\*             "finished" (the pending store call ended, nothing else happened)
\*   storeErr  the message of the store call that failed in this step, "" if none
\*   callbacks how often the call's callback has been invoked, this step included
\*   ended     the call has no step left
SaveEvent(kind, call, err, storeErr, callbacks, ended) ==
  [kind |-> kind, op |-> "saveUserOptOut", user |-> call.user, cred |-> call.cred,
   share |-> call.share, err |-> err, storeErr |-> storeErr,
   callbacks |-> callbacks, ended |-> ended]

\* ------------------------------------------------- saveUserOptOut
Calls == 1..NumCalls
\* dataUse.share as sent by the client, written as JavaScript source.
ShareValues == {"false", "true", "undefined", "'true'"}
IdleCall == [pc |-> "idle", user |-> "", cred |-> 0, share |-> "", callbacks |-> 0]
Call(p, u, c, sh, n) == [pc |-> p, user |-> u, cred |-> c, share |-> sh, callbacks |-> n]

\* The callback saveUserOptOut hands to getOrCreateOptOutDetails:
\*   if (err && err.code !== 404) { log.info({id: id}, ...); return callback(err); }
\*   if (results) { return callback(); }
\* `id` is declared nowhere, so evaluating the log statement throws a
\* ReferenceError before callback(err) is reached.
OptOutDetailsCallback(err, hasRow) ==
  IF err # NoErr /\ err.code # 404 THEN "threw"
  ELSE IF hasRow THEN "callback"
  ELSE "silent"

\* getOrCreateOptOutDetails's answer reaches saveUserOptOut's callback: the
\* event of that step, for call i.
OptOutAnswered(i, err, hasRow, storeErr) ==
  LET call == optCalls[i]
      out  == OptOutDetailsCallback(err, hasRow)
  IN /\ optCalls' = [optCalls EXCEPT ![i] = IdleCall]
     /\ event' = IF out = "callback"
                 THEN SaveEvent("callback", call, NoErr, storeErr, call.callbacks + 1, TRUE)
                 ELSE SaveEvent(out, call, NoErr, storeErr, call.callbacks, TRUE)

\* A test of the share value by truthiness: every falsy value opts out, every
\* truthy value opts in.
ShareBranchByTruthiness(sh) ==
  IF sh \in {"false", "undefined"} THEN "optOut" ELSE "optIn"
\* The branch saveUserOptOut takes: if (dataUse.share === false) ... else if
\* (dataUse.share === true) ... else ...; strict equality, so only the two
\* booleans select a store operation.
ShareBranch(sh) ==
  IF sh = "false" THEN "optOut"
  ELSE IF sh = "true" THEN "optIn"
  ELSE "invalid"

\* saveUserOptOut(ctx, dataUse, callback), up to its return.
saveUserOptOut(i) ==
  /\ optCalls[i].pc = "idle"
  /\ \E u \in UserIds, c \in DataUseIds, sh \in ShareValues :
       IF ShareBranch(sh) = "optOut"
       THEN \* getOrCreateOptOutDetails: DB.Opt_out.findOrCreate(options) is issued
            /\ optCalls' = [optCalls EXCEPT ![i] = Call("findOrCreate", u, c, sh, 0)]
            /\ event' = NoEvent
       ELSE IF ShareBranch(sh) = "optIn"
       THEN \* DB.Opt_out.destroy(...) is issued, then: return callback()
            /\ optCalls' = [optCalls EXCEPT ![i] = Call("destroy", u, c, sh, 1)]
            /\ event' = SaveEvent("callback", Call("destroy", u, c, sh, 1), NoErr, "", 1, FALSE)
       ELSE \* the share value is no boolean: log, return callback()
            /\ optCalls' = optCalls
            /\ event' = SaveEvent("callback", Call("idle", u, c, sh, 1), NoErr, "", 1, TRUE)
  /\ UNCHANGED optOuts
  /\ UNCHANGED <<seriesVars, userVars, tenantVars, courseVars>>

\* findOrCreate, first half: the SELECT. A row found is the answer; none found
\* leads to the INSERT.
findOrCreateFind(i) ==
  LET call == optCalls[i]
  IN /\ call.pc = "findOrCreate"
     /\ IF FindOptOut(optOuts, call.user, call.cred)
        THEN OptOutAnswered(i, NoErr, TRUE, "")
        ELSE /\ optCalls' = [optCalls EXCEPT ![i].pc = "insert"]
             /\ event' = NoEvent
     /\ UNCHANGED optOuts
     /\ UNCHANGED <<seriesVars, userVars, tenantVars, courseVars>>

\* findOrCreate, second half: the INSERT. Refused by the uniqueness constraint
\* (another call inserted the pair meanwhile), findOrCreate answers with the row
\* that is there.
findOrCreateInsert(i) ==
  LET call == optCalls[i]
  IN /\ call.pc = "insert"
     /\ optOuts' = IF UniqueViolation(optOuts, call.user, call.cred)
                   THEN optOuts
                   ELSE InsertOptOut(optOuts, call.user, call.cred)
     /\ OptOutAnswered(i, NoErr, TRUE, "")
     /\ UNCHANGED <<seriesVars, userVars, tenantVars, courseVars>>

\* findOrCreate fails in the store: getOrCreateOptOutDetails answers
\* callback({code: 500, msg: err.message}).
findOrCreateFailed(i) ==
  /\ optCalls[i].pc \in {"findOrCreate", "insert"}
  /\ OptOutAnswered(i, Err(500, StoreMsg), FALSE, StoreMsg)
  /\ UNCHANGED optOuts
  /\ UNCHANGED <<seriesVars, userVars, tenantVars, courseVars>>

\* destroy resolves: .then(function(rowDeleted) { ... log.info ... })
destroyResolved(i) ==
  LET call == optCalls[i]
  IN /\ call.pc = "destroy"
     /\ optOuts' = DestroyOptOut(optOuts, call.user, call.cred)
     /\ optCalls' = [optCalls EXCEPT ![i] = IdleCall]
     /\ event' = SaveEvent("finished", call, NoErr, "", call.callbacks, TRUE)
     /\ UNCHANGED <<seriesVars, userVars, tenantVars, courseVars>>

\* destroy rejects: function(err) { log.error(err); }
destroyRejected(i) ==
  LET call == optCalls[i]
  IN /\ call.pc = "destroy"
     /\ optCalls' = [optCalls EXCEPT ![i] = IdleCall]
     /\ event' = SaveEvent("logged", call, NoErr, StoreMsg, call.callbacks, TRUE)
     /\ UNCHANGED optOuts
     /\ UNCHANGED <<seriesVars, userVars, tenantVars, courseVars>>

\* ------------------------------------------------- getDataUses
\* What getDataUses's callback was invoked with.
DataUsesEvent(tenantId, userId, err, value) ==
  [kind |-> "callback", op |-> "getDataUses", tenant |-> tenantId, user |-> userId,
   err |-> err, value |-> value]

\* options.where with the datashare test on the wrong branch of the Op.or.
CredentialVisibleShareOnNull(c, tenantId) ==
  c.tenant_id = tenantId \/ (c.tenant_id = Null /\ c.datashare = TRUE)
\* options.where without the datashare test.
CredentialVisibleNoShare(c, tenantId) ==
  c.tenant_id = tenantId \/ c.tenant_id = Null
\* options.where:
\*   {[Op.or]: [{tenant_id: tenantId, datashare: true}, {tenant_id: null}]}
CredentialVisible(c, tenantId) ==
  (c.tenant_id = tenantId /\ c.datashare = TRUE) \/ c.tenant_id = Null

\* The association of Credential and User that `include: [{model: DB.User}]`
\* joins over: the opt_outs rows.
Associated(t, u, c) == t[<<u, c>>] > 0

\* dataUse.users: undefined without ctx.user (no include), otherwise the users
\* joined to the credential that pass
\*   where: {id: ctx.user.id, tenant_id: tenantId}   (required: false)
IncludedUsers(t, c, userId, tenantId) ==
  IF userId = Null
  THEN [defined |-> FALSE, list |-> {}]
  ELSE [defined |-> TRUE,
        list |-> {u \in UserRows : /\ u.id = userId
                                   /\ u.tenant_id = tenantId
                                   /\ Associated(t, u.id, c.id)}]

\* The test with its sense turned round.
OptedOutWhenJoined(users) == users.defined /\ Cardinality(users.list) > 0
\* The test without its guard for a missing users list.
OptedOutUnguarded(users) == users.defined /\ Cardinality(users.list) <= 0
\* var optedOut = !dataUse.users || dataUse.users.length <= 0;
OptedOut(users) == ~users.defined \/ Cardinality(users.list) <= 0

\* The object _.map builds for one credential.
DataUse(c, users) ==
  [id |-> c.id, name |-> c.name, description |-> c.description,
   anonymous |-> c.anonymous, share |-> OptedOut(users)]

\* DB.Credential.findAll(options), then the _.map over its rows.
DataUses(t, tenantId, userId) ==
  LET found == SelectSeq(Credentials, LAMBDA c : CredentialVisible(c, tenantId))
  IN [k \in 1..Len(found) |->
        DataUse(found[k], IncludedUsers(t, found[k], userId, tenantId))]

\* getDataUses(ctx, callback): ctx.auth.tenant_id and ctx.user may be missing.
getDataUses ==
  /\ \E tenantId \in Tenants \cup {Null}, userId \in UserIds \cup {Null}, fails \in BOOLEAN :
       event' =
         IF tenantId = Null
         THEN DataUsesEvent(tenantId, userId,
                Err(500, "Prevented getting the projects that have access to the current user data"),
                <<>>)
         ELSE IF fails
         THEN DataUsesEvent(tenantId, userId, Err(500, StoreMsg), <<>>)
         ELSE DataUsesEvent(tenantId, userId, NoErr, DataUses(optOuts, tenantId, userId))
  /\ UNCHANGED <<optVars, userVars, seriesVars, tenantVars, courseVars>>

\* ------------------------------------------------- isStudentOptedOut
\* findOne's answer: the opt_outs row of the pair, or null.
NoOptOut == [found |-> FALSE, user_id |-> "", credential_id |-> 0]
OptOutRow(u, c) == [found |-> TRUE, user_id |-> u, credential_id |-> c]
\* What a call of isStudentOptedOut showed its caller: kind "callback" with
\* (err, value), or kind "threw" when an exception left the handler and the
\* callback was not invoked. storeErr is the message of the failed lookup.
OptedOutEvent(kind, u, c, err, value, storeErr) ==
  [kind |-> kind, op |-> "isStudentOptedOut", user |-> u, cred |-> c, err |-> err,
   value |-> value, storeErr |-> storeErr]

\* isStudentOptedOut(userId, consumerCredentialId, callback):
\*   DB.Opt_out.findOne(options).complete(function(err, data) {
\*     if (err) { log.error({err: err, external_id: externalId}, ...);
\*                return callback({code: 500, msg: err.message}); }
\*     return callback(null, data); });
\* `externalId` is declared nowhere, so on the error path the log statement
\* throws a ReferenceError before the callback is reached.
isStudentOptedOut ==
  /\ \E u \in UserIds, c \in CredIds, fails \in BOOLEAN :
       event' = IF fails
                THEN OptedOutEvent("threw", u, c, NoErr, NoOptOut, StoreMsg)
                ELSE IF FindOptOut(optOuts, u, c)
                THEN OptedOutEvent("callback", u, c, NoErr, OptOutRow(u, c), "")
                ELSE OptedOutEvent("callback", u, c, NoErr, NoOptOut, "")
  /\ UNCHANGED <<optVars, userVars, seriesVars, tenantVars, courseVars>>

\* ------------------------------------------------- getOrCreateUser
\* The arguments the calls are made with. "" stands for an externalId that
\* Joi.string().required() refuses.
UserKeys == {<<"e1", 1>>, <<"e1", 2>>, <<"e2", 1>>}
Names == {"n1", "n2"}
IdleUserCall == [pc |-> "idle", externalId |-> "", tenantId |-> 0, name |-> ""]
NoUser == [external_id |-> "", tenant_id |-> 0, name |-> ""]

\* What getOrCreateUser's callback was invoked with; wasCreated is data[1] of
\* findOrCreate's answer.
UserEvent(call, err, user, wasCreated) ==
  [kind |-> "callback", op |-> "getOrCreateUser", externalId |-> call.externalId,
   tenantId |-> call.tenantId, name |-> call.name, err |-> err, user |-> user,
   wasCreated |-> wasCreated]

\* Joi.validate against {externalId: Joi.string().required(), tenantId:
\* Joi.number().required(), name: [Joi.string().optional(), Joi.allow(null)]}:
\* the message of the first violation, "" if there is none.
ValidationError(externalId, tenantId, name) ==
  IF externalId = "" THEN "\"externalId\" is not allowed to be empty" ELSE ""

\* A row built without the defaults.
NewUserWithoutDefaults(externalId, tenantId, name) ==
  [external_id |-> externalId, tenant_id |-> tenantId, name |-> ""]
\* The row findOrCreate creates from options.where and options.defaults.
NewUser(externalId, tenantId, name) ==
  [external_id |-> externalId, tenant_id |-> tenantId, name |-> name]

\* The uniqueness constraint on the users table's natural key (external_id, tenant_id).
UserKeyTaken(t, externalId, tenantId) == Len(t[<<externalId, tenantId>>]) >= 1

\* getOrCreateUser(externalId, tenantId, name, callback) up to its return.
getOrCreateUser(i) ==
  /\ userCalls[i].pc = "idle"
  /\ \E key \in UserKeys \cup {<<"", 1>>}, name \in Names :
       LET call == [pc |-> "findOrCreate", externalId |-> key[1], tenantId |-> key[2],
                    name |-> name]
           msg  == ValidationError(key[1], key[2], name)
       IN IF msg # ""
          THEN /\ event' = UserEvent(call, Err(400, msg), NoUser, FALSE)
               /\ UNCHANGED userCalls
          ELSE /\ userCalls' = [userCalls EXCEPT ![i] = call]
               /\ event' = NoEvent
  /\ UNCHANGED <<usersTable, optVars, seriesVars, tenantVars, courseVars>>

\* DB.User.findOrCreate, first half: the SELECT by options.where.
userFindOrCreateFind(i) ==
  LET call == userCalls[i]
      rows == usersTable[<<call.externalId, call.tenantId>>]
  IN /\ call.pc = "findOrCreate"
     /\ IF Len(rows) > 0
        THEN /\ userCalls' = [userCalls EXCEPT ![i] = IdleUserCall]
             /\ event' = UserEvent(call, NoErr, rows[1], FALSE)
        ELSE /\ userCalls' = [userCalls EXCEPT ![i].pc = "insert"]
             /\ event' = NoEvent
     /\ UNCHANGED <<usersTable, optVars, seriesVars, tenantVars, courseVars>>

\* DB.User.findOrCreate, second half: the INSERT. Refused by the uniqueness
\* constraint, findOrCreate answers with the row that is there.
userFindOrCreateInsert(i) ==
  LET call == userCalls[i]
      key  == <<call.externalId, call.tenantId>>
      row  == NewUser(call.externalId, call.tenantId, call.name)
  IN /\ call.pc = "insert"
     /\ IF UserKeyTaken(usersTable, call.externalId, call.tenantId)
        THEN /\ event' = UserEvent(call, NoErr, usersTable[key][1], FALSE)
             /\ UNCHANGED usersTable
        ELSE /\ usersTable' = [usersTable EXCEPT ![key] = Append(@, row)]
             /\ event' = UserEvent(call, NoErr, row, TRUE)
     /\ userCalls' = [userCalls EXCEPT ![i] = IdleUserCall]
     /\ UNCHANGED <<optVars, seriesVars, tenantVars, courseVars>>

\* findOrCreate fails in the store: callback({code: 500, msg: err.message}).
userFindOrCreateFailed(i) ==
  LET call == userCalls[i]
  IN /\ call.pc \in {"findOrCreate", "insert"}
     /\ userCalls' = [userCalls EXCEPT ![i] = IdleUserCall]
     /\ event' = UserEvent(call, Err(500, StoreMsg), NoUser, FALSE)
     /\ UNCHANGED <<usersTable, optVars, seriesVars, tenantVars, courseVars>>

\* ------------------------------------------------- getTenant
\* Joi.string().alphanum().length(32)
KeyLength == 32
\* An ltiKey argument: its text, its length and whether every character is
\* alphanumeric; defined is FALSE for an argument that is undefined.
LtiKey(text, length, alnum) ==
  [defined |-> TRUE, text |-> text, length |-> length, alnum |-> alnum]
UndefinedKey == [defined |-> FALSE, text |-> "undefined", length |-> 0, alnum |-> FALSE]
LtiKeys ==
  { LtiKey("k1", KeyLength, TRUE), LtiKey("k2", KeyLength, TRUE),
    LtiKey("short", KeyLength - 1, TRUE), LtiKey("long", KeyLength + 1, TRUE),
    LtiKey("k-1", KeyLength, FALSE), LtiKey("", 0, TRUE), UndefinedKey }
\* apiDomain arguments; "" is refused by Joi.string().required().
ApiDomains == {"d1", "d2", ""}
\* The rows the tenants table can hold.
TenantRows == { [tenant_api_domain |-> "d1", lti_key |-> "k1"],
                [tenant_api_domain |-> "d2", lti_key |-> "k2"] }
NoTenant == [tenant_api_domain |-> "", lti_key |-> ""]
IdleTenantCall == [pc |-> "idle", apiDomain |-> "", ltiKey |-> UndefinedKey]

\* What getTenant's callback was invoked with.
TenantEvent(apiDomain, ltiKey, err, tenant) ==
  [kind |-> "callback", op |-> "getTenant", apiDomain |-> apiDomain, ltiKey |-> ltiKey,
   err |-> err, tenant |-> tenant]

\* Joi.validate against {apiDomain: Joi.string().required(), ltiKey:
\* Joi.string().alphanum().length(32)}: the message of the first violation, ""
\* if there is none. ltiKey is not .required(): undefined passes.
TenantValidationError(apiDomain, ltiKey) ==
  IF apiDomain = "" THEN "\"apiDomain\" is not allowed to be empty"
  ELSE IF ~ltiKey.defined THEN ""
  ELSE IF ltiKey.length = 0 THEN "\"ltiKey\" is not allowed to be empty"
  ELSE IF ~ltiKey.alnum THEN "\"ltiKey\" must only contain alpha-numeric characters"
  ELSE IF ltiKey.length # KeyLength THEN "\"ltiKey\" length must be 32 characters long"
  ELSE ""

\* getTenant(apiDomain, ltiKey, callback) up to its return: a validation error
\* is answered at once, otherwise DB.Tenant.findOne(options) is issued.
getTenant ==
  /\ tenantCall.pc = "idle"
  /\ \E apiDomain \in ApiDomains, ltiKey \in LtiKeys :
       LET msg == TenantValidationError(apiDomain, ltiKey)
       IN IF msg # ""
          THEN /\ event' = TenantEvent(apiDomain, ltiKey, Err(400, msg), NoTenant)
               /\ UNCHANGED tenantCall
          ELSE /\ tenantCall' = [pc |-> "findOne", apiDomain |-> apiDomain, ltiKey |-> ltiKey]
               /\ event' = NoEvent
  /\ UNCHANGED <<tenantsTable, optVars, userVars, courseVars, seriesVars>>

\* findOne answers: the row that matches options.where = {tenant_api_domain,
\* lti_key}, or none (404). With lti_key undefined the where clause either
\* compares lti_key with NULL or leaves lti_key out, depending on the store
\* library; both are outcomes.
tenantFindOne ==
  /\ tenantCall.pc = "findOne"
  /\ \E keyCompared \in (IF tenantCall.ltiKey.defined THEN {TRUE} ELSE BOOLEAN) :
       LET found == {t \in tenantsTable :
                       /\ t.tenant_api_domain = tenantCall.apiDomain
                       /\ keyCompared => (tenantCall.ltiKey.defined
                                            /\ t.lti_key = tenantCall.ltiKey.text)}
       IN event' = IF found = {}
                   THEN TenantEvent(tenantCall.apiDomain, tenantCall.ltiKey,
                          Err(404, "A Tenant(Canvas) instance with the specified api domain and consumer lti key could not be found"),
                          NoTenant)
                   ELSE TenantEvent(tenantCall.apiDomain, tenantCall.ltiKey, NoErr,
                                    CHOOSE t \in found : TRUE)
  /\ tenantCall' = IdleTenantCall
  /\ UNCHANGED <<tenantsTable, optVars, userVars, courseVars, seriesVars>>

\* findOne fails in the store: callback({code: 500, msg: err.message}).
tenantFindOneFailed ==
  /\ tenantCall.pc = "findOne"
  /\ event' = TenantEvent(tenantCall.apiDomain, tenantCall.ltiKey, Err(500, StoreMsg), NoTenant)
  /\ tenantCall' = IdleTenantCall
  /\ UNCHANGED <<tenantsTable, optVars, userVars, courseVars, seriesVars>>

\* ------------------------------------------------- getOrCreateCourse
\* A field that is not supplied, written as JavaScript source.
Undefined == "undefined"
\* canvasCourseId arguments, written as JavaScript source; "undefined" is
\* refused by Joi.number().required().
CourseIdArgs == {"101", Undefined}
\* The natural keys (canvas_course_id, tenant_id) the calls are made with.
CourseKeys == {<<"101", 1>>, <<"101", 2>>}
\* courseInfo arguments; given = FALSE is a call without courseInfo, which the
\* schema allows (.optional()).
CourseInfo(name, url) == [given |-> TRUE, name |-> name, privacydashboard_url |-> url]
NoCourseInfo == [given |-> FALSE, name |-> Undefined, privacydashboard_url |-> Undefined]
CourseInfos == {CourseInfo("c1", "d1"), CourseInfo("c2", Undefined)}
\* A row of the courses table.
Course(canvasCourseId, tenantId, name, url) ==
  [canvas_course_id |-> canvasCourseId, tenant_id |-> tenantId, name |-> name,
   privacydashboard_url |-> url]
NoCourse == Course("", 0, Null, Null)
IdleCourseCall ==
  [pc |-> "idle", canvasCourseId |-> "", tenantId |-> 0, courseInfo |-> NoCourseInfo,
   course |-> NoCourse]

\* What a call of getOrCreateCourse showed its caller: kind "callback" with
\* (err, course), or kind "threw" when an exception left the function.
\*   found      the row findOrCreate answered with, NoCourse if it answered none
\*   wasCreated data[1] of findOrCreate's answer
\*   storeErr   the message of the store call that failed in this step
CourseEvent(kind, call, err, course, found, wasCreated, storeErr) ==
  [kind |-> kind, op |-> "getOrCreateCourse", canvasCourseId |-> call.canvasCourseId,
   tenantId |-> call.tenantId, courseInfo |-> call.courseInfo, err |-> err,
   course |-> course, found |-> found, wasCreated |-> wasCreated, storeErr |-> storeErr]

\* Joi.validate against {canvasCourseId: Joi.number().required(), canvas:
\* Joi.object().required(), courseInfo: Joi.object().keys({...}).optional()}: the
\* message of the first violation, "" if there is none.
CourseValidationError(canvasCourseId, tenantId, courseInfo) ==
  IF canvasCourseId = Undefined THEN "\"canvasCourseId\" is required" ELSE ""

\* The value a column gets from a field of options.defaults.
ColumnValue(v) == IF v = Undefined THEN Null ELSE v
\* The row findOrCreate creates from options.where and options.defaults =
\* {name: courseInfo.name, privacydashboard_url: courseInfo.privacydashboard_url}.
NewCourse(canvasCourseId, tenantId, courseInfo) ==
  Course(canvasCourseId, tenantId, ColumnValue(courseInfo.name),
         ColumnValue(courseInfo.privacydashboard_url))
\* An update that leaves the row as it was found.
UpdatedCourseAsFound(course, courseInfo) == course
\* course.update(courseInfo): the fields courseInfo supplies are set, the others
\* stay.
UpdatedCourse(course, courseInfo) ==
  [course EXCEPT
     !.name = IF courseInfo.name # Undefined THEN courseInfo.name ELSE @,
     !.privacydashboard_url = IF courseInfo.privacydashboard_url # Undefined
                              THEN courseInfo.privacydashboard_url ELSE @]

\* The uniqueness constraint on the courses table's natural key
\* (canvas_course_id, tenant_id).
CourseKeyTaken(t, canvasCourseId, tenantId) == Len(t[<<canvasCourseId, tenantId>>]) >= 1

\* getOrCreateCourse(canvasCourseId, canvas, courseInfo, callback) up to its
\* return: a validation error is answered at once; without courseInfo building
\* options throws (courseInfo.name of undefined); otherwise
\* DB.Course.findOrCreate(options) is issued.
getOrCreateCourse(i) ==
  /\ courseCalls[i].pc = "idle"
  /\ \E canvasCourseId \in CourseIdArgs, tenantId \in {k[2] : k \in CourseKeys},
        courseInfo \in CourseInfos \cup {NoCourseInfo} :
       LET call == [pc |-> "findOrCreate", canvasCourseId |-> canvasCourseId,
                    tenantId |-> tenantId, courseInfo |-> courseInfo, course |-> NoCourse]
           msg  == CourseValidationError(canvasCourseId, tenantId, courseInfo)
       IN IF msg # ""
          THEN /\ event' = CourseEvent("callback", call, Err(400, msg), NoCourse, NoCourse, FALSE, "")
               /\ UNCHANGED courseCalls
          ELSE IF ~courseInfo.given
          THEN /\ event' = CourseEvent("threw", call, NoErr, NoCourse, NoCourse, FALSE, "")
               /\ UNCHANGED courseCalls
          ELSE /\ courseCalls' = [courseCalls EXCEPT ![i] = call]
               /\ event' = NoEvent
  /\ UNCHANGED <<coursesTable, optVars, userVars, tenantVars, seriesVars>>

\* DB.Course.findOrCreate, first half: the SELECT by options.where. A row found
\* is answered with wasCreated = false, and course.update(courseInfo) is issued.
courseFindOrCreateFind(i) ==
  LET call == courseCalls[i]
      rows == coursesTable[<<call.canvasCourseId, call.tenantId>>]
  IN /\ call.pc = "findOrCreate"
     /\ courseCalls' = IF Len(rows) > 0
                       THEN [courseCalls EXCEPT ![i].pc = "update", ![i].course = rows[1]]
                       ELSE [courseCalls EXCEPT ![i].pc = "insert"]
     /\ event' = NoEvent
     /\ UNCHANGED <<coursesTable, optVars, userVars, tenantVars, seriesVars>>

\* DB.Course.findOrCreate, second half: the INSERT. Refused by the uniqueness
\* constraint, findOrCreate answers with the row that is there and
\* wasCreated = false; otherwise the new row is answered: callback(null, course).
courseFindOrCreateInsert(i) ==
  LET call == courseCalls[i]
      key  == <<call.canvasCourseId, call.tenantId>>
      row  == NewCourse(call.canvasCourseId, call.tenantId, call.courseInfo)
  IN /\ call.pc = "insert"
     /\ IF CourseKeyTaken(coursesTable, call.canvasCourseId, call.tenantId)
        THEN /\ courseCalls' = [courseCalls EXCEPT ![i].pc = "update",
                                                   ![i].course = coursesTable[key][1]]
             /\ event' = NoEvent
             /\ UNCHANGED coursesTable
        ELSE /\ coursesTable' = [coursesTable EXCEPT ![key] = Append(@, row)]
             /\ courseCalls' = [courseCalls EXCEPT ![i] = IdleCourseCall]
             /\ event' = CourseEvent("callback", call, NoErr, row, row, TRUE, "")
     /\ UNCHANGED <<optVars, userVars, tenantVars, seriesVars>>

\* findOrCreate fails in the store: callback({code: 500, msg: err.message}).
courseFindOrCreateFailed(i) ==
  LET call == courseCalls[i]
  IN /\ call.pc \in {"findOrCreate", "insert"}
     /\ courseCalls' = [courseCalls EXCEPT ![i] = IdleCourseCall]
     /\ event' = CourseEvent("callback", call, Err(500, StoreMsg), NoCourse, NoCourse, FALSE, StoreMsg)
     /\ UNCHANGED <<coursesTable, optVars, userVars, tenantVars, seriesVars>>

\* course.update(courseInfo) completes: the row of the key gets the supplied
\* fields, and the updated instance is answered: callback(null, course).
courseUpdated(i) ==
  LET call == courseCalls[i]
      key  == <<call.canvasCourseId, call.tenantId>>
  IN /\ call.pc = "update"
     /\ coursesTable' = [coursesTable EXCEPT
                           ![key] = [r \in 1..Len(@) |-> UpdatedCourse(@[r], call.courseInfo)]]
     /\ courseCalls' = [courseCalls EXCEPT ![i] = IdleCourseCall]
     /\ event' = CourseEvent("callback", call, NoErr,
                             UpdatedCourse(call.course, call.courseInfo), call.course, FALSE, "")
     /\ UNCHANGED <<optVars, userVars, tenantVars, seriesVars>>

\* course.update fails in the store: callback({code: 500, msg: err.message}).
courseUpdateFailed(i) ==
  LET call == courseCalls[i]
  IN /\ call.pc = "update"
     /\ courseCalls' = [courseCalls EXCEPT ![i] = IdleCourseCall]
     /\ event' = CourseEvent("callback", call, Err(500, StoreMsg), NoCourse, call.course, FALSE, StoreMsg)
     /\ UNCHANGED <<coursesTable, optVars, userVars, tenantVars, seriesVars>>

InitStore ==
  /\ optOuts = [k \in OptOutKeys |-> 0]
  /\ optCalls = [i \in Calls |-> IdleCall]
  /\ usersTable = [k \in UserKeys |-> <<>>]
  /\ userCalls = [i \in Calls |-> IdleUserCall]
  /\ tenantsTable = TenantRows
  /\ tenantCall = IdleTenantCall
  /\ coursesTable = [k \in CourseKeys |-> <<>>]
  /\ courseCalls = [i \in Calls |-> IdleCourseCall]
  /\ event = NoEvent

Init == InitSeries /\ InitStore

\* Every opt_outs table the store can hold: at most one row per pair, rows only
\* for the credentials clients save opt-outs for.
InitReads ==
  /\ InitSeries
  /\ optOuts \in {t \in [OptOutKeys -> {0, 1}] : \A k \in OptOutKeys : k[2] \notin DataUseIds => t[k] = 0}
  /\ optCalls = [i \in Calls |-> IdleCall]
  /\ usersTable = [k \in UserKeys |-> <<>>]
  /\ userCalls = [i \in Calls |-> IdleUserCall]
  /\ tenantsTable = TenantRows
  /\ tenantCall = IdleTenantCall
  /\ coursesTable = [k \in CourseKeys |-> <<>>]
  /\ courseCalls = [i \in Calls |-> IdleCourseCall]
  /\ event = NoEvent

\* Every tenants table over TenantRows.
InitTenants ==
  /\ InitSeries
  /\ optOuts = [k \in OptOutKeys |-> 0]
  /\ optCalls = [i \in Calls |-> IdleCall]
  /\ usersTable = [k \in UserKeys |-> <<>>]
  /\ userCalls = [i \in Calls |-> IdleUserCall]
  /\ tenantsTable \in SUBSET TenantRows
  /\ tenantCall = IdleTenantCall
  /\ coursesTable = [k \in CourseKeys |-> <<>>]
  /\ courseCalls = [i \in Calls |-> IdleCourseCall]
  /\ event = NoEvent

Next ==
  \/ \E i \in Calls : saveUserOptOut(i)
  \/ \E i \in Calls : findOrCreateFind(i)
  \/ \E i \in Calls : findOrCreateInsert(i)
  \/ \E i \in Calls : findOrCreateFailed(i)
  \/ \E i \in Calls : destroyResolved(i)
  \/ \E i \in Calls : destroyRejected(i)

NextReads ==
  \/ getDataUses
  \/ isStudentOptedOut

NextUsers ==
  \/ \E i \in Calls : getOrCreateUser(i)
  \/ \E i \in Calls : userFindOrCreateFind(i)
  \/ \E i \in Calls : userFindOrCreateInsert(i)
  \/ \E i \in Calls : userFindOrCreateFailed(i)

NextCourses ==
  \/ \E i \in Calls : getOrCreateCourse(i)
  \/ \E i \in Calls : courseFindOrCreateFind(i)
  \/ \E i \in Calls : courseFindOrCreateInsert(i)
  \/ \E i \in Calls : courseFindOrCreateFailed(i)
  \/ \E i \in Calls : courseUpdated(i)
  \/ \E i \in Calls : courseUpdateFailed(i)

NextTenants ==
  \/ getTenant
  \/ tenantFindOne
  \/ tenantFindOneFailed

SpecSeries == Init /\ [][NextSeries]_vars
Spec == Init /\ [][Next]_vars
SpecReads == InitReads /\ [][NextReads]_vars
SpecUsers == Init /\ [][NextUsers]_vars
SpecCourses == Init /\ [][NextCourses]_vars
SpecTenants == InitTenants /\ [][NextTenants]_vars

\* ------------------------------------------------- claims on the series

\* The dense series the contract describes, computed from the rows alone: one
\* entry per calendar month from the first row's month to the last row's month.
ExpectedSeries(rs, clock) ==
  LET first == MonthIndex(rs[1].year, rs[1].month)
      last  == MonthIndex(rs[Len(rs)].year, rs[Len(rs)].month)
  IN [k \in 1..(last - first + 1) |->
        LET idx == first + k - 1
        IN SeriesEntry(rs, idx \div 12, (idx % 12) + 1, clock)]

IsPrefix(s, t) == Len(s) <= Len(t) /\ \A i \in 1..Len(s) : s[i] = t[i]

\* C1: for every non-empty ascending input, the series getTotalActivities builds
\* and returns is the dense series from the first row's month through the last
\* row's month: while it is built it is a prefix of that series, and the series
\* handed to the callback equals it.
C1_SeriesIsDense ==
  (pc \in {"loop", "done"} /\ Len(results) > 0) =>
     /\ IsPrefix(totalActivities, ExpectedSeries(results, now))
     /\ (pc = "done" /\ cbErr = NoErr) => cbValue = ExpectedSeries(results, now)

\* C2: the loop terminates, also when the last row is a December: the bound
\* "last month + 1" is compared as a calendar month (month 13 of a year is month
\* 1 of the next), so the loop stops when the running (year, month) is the month
\* after the last row, and the running pair never passes that month.
C2_LoopReachesBound ==
  pc = "loop" =>
     /\ MonthIndex(currentYear, currentMonth)
          <= MonthIndex(lastActivityYear, lastActivityMonth)
     /\ MonthIndex(currentYear, currentMonth)
          = MonthIndex(lastActivityYear, lastActivityMonth) => ~LoopCondition

\* C15: when the monthly query returns no rows, getTotalActivities answers at
\* once with the empty series and no error, and the month loop is not entered
\* (nothing is appended, the loop variables stay unset); only an empty result is
\* answered without the loop.
C15_EmptyResultEmptySeries ==
  [][/\ (pc = "query" /\ pc' # "query" /\ results' = <<>> /\ cbErr' # Err(500, StoreMsg)) =>
          /\ pc' = "done"
          /\ cbErr' = NoErr
          /\ cbValue' = <<>>
          /\ cbCount' = 1
          /\ totalActivities' = <<>>
          /\ <<currentYear', currentMonth', lastActivityYear', lastActivityMonth'>>
               = <<currentYear, currentMonth, lastActivityYear, lastActivityMonth>>
     /\ (pc = "query" /\ pc' = "done" /\ cbErr' = NoErr) => results' = <<>>]_vars

\* The query of a call made in some month returned no rows and the callback
\* received the empty series.
C15_Witness ==
  /\ pc = "done"
  /\ now # <<0, 0>>
  /\ results = <<>>
  /\ cbErr = NoErr
  /\ cbValue = <<>>
  /\ cbCount = 1

\* ------------------------------------------------- claims on saveUserOptOut
SaveEnded == event.op = "saveUserOptOut" /\ event.ended

\* C3: in every reachable state there is at most one OptOut row per (user,
\* credential) pair, and an opt-out call (share = false) whose store call did not
\* fail reports success, with exactly one row of its pair in the store, whether
\* it created the row, found it, or lost the race for it.
C3_AtMostOneRow ==
  /\ \A k \in OptOutKeys : optOuts[k] <= 1
  /\ (SaveEnded /\ event.share = "false" /\ event.storeErr = "") =>
        /\ event.kind = "callback"
        /\ event.err = NoErr
        /\ event.callbacks = 1
        /\ optOuts[<<event.user, event.cred>>] = 1

\* C3's case: an opt-out call has just reported success while another opt-out
\* call for the same pair, which found no row either, is about to insert.
C3_Witness ==
  /\ SaveEnded /\ event.share = "false" /\ event.kind = "callback"
  /\ \E i \in Calls :
       /\ optCalls[i].pc = "insert"
       /\ optCalls[i].user = event.user
       /\ optCalls[i].cred = event.cred

\* C4: when the callback of an opt-in call (share = true) reports success, no
\* OptOut row exists for the call's pair.
C4_OptInDeletesBeforeSuccess ==
  (event.op = "saveUserOptOut" /\ event.share = "true" /\ event.kind = "callback"
     /\ event.err = NoErr) =>
        optOuts[<<event.user, event.cred>>] = 0

\* C5: a failure of saveUserOptOut's store call is answered through the callback
\* with an error that carries the store's message, and the call reports nothing
\* else.
C5_StoreFailureSurfaced ==
  (event.op = "saveUserOptOut" /\ event.storeErr # "") =>
     /\ event.kind = "callback"
     /\ event.err = Err(500, event.storeErr)
     /\ event.callbacks = 1

\* C13: a saveUserOptOut call whose share value is neither the boolean true nor
\* the boolean false changes no OptOut row of any pair, issues no store call,
\* and invokes its callback once, without an error, in the step that receives
\* it; no call in flight against the store carries such a share value.
C13_InvalidShareChangesNothing ==
  /\ [](\A i \in Calls : optCalls[i].pc # "idle" => optCalls[i].share \in {"false", "true"})
  /\ [][(event'.op = "saveUserOptOut" /\ event'.share \notin {"false", "true"}) =>
          /\ optOuts' = optOuts
          /\ optCalls' = optCalls
          /\ event'.kind = "callback"
          /\ event'.err = NoErr
          /\ event'.callbacks = 1
          /\ event'.ended]_vars

\* A call with share = undefined or share = 'true' is answered while a row of
\* its pair exists and another call is in flight.
C13_Witness ==
  /\ event.op = "saveUserOptOut"
  /\ event.share \in {"undefined", "'true'"}
  /\ event.kind = "callback"
  /\ event.err = NoErr
  /\ optOuts[<<event.user, event.cred>>] = 1
  /\ \E i \in Calls : optCalls[i].pc # "idle"

\* C16: every saveUserOptOut call invokes its callback exactly once, whatever
\* the share value and the outcome of the store call: a call that has ended has
\* invoked it once, and no call invokes it a second time.
C16_CallbackExactlyOnce ==
  /\ SaveEnded => event.callbacks = 1
  /\ \A i \in Calls : optCalls[i].callbacks <= 1

\* ------------------------------------------------- claims on getDataUses
DataUsesAnswered == event.op = "getDataUses" /\ event.err = NoErr
\* How often credential c is listed in the answer.
ListedCount(c) == Cardinality({k \in 1..Len(event.value) : event.value[k].id = c})
RowExists(u, c) == optOuts[<<u, c>>] > 0
TenantOf(u) == (CHOOSE r \in UserRows : r.id = u).tenant_id

C7_ListedCredentials ==
  DataUsesAnswered =>
     \A c \in CredIds :
        ListedCount(c) =
          IF \/ (Credentials[c].tenant_id = event.tenant /\ Credentials[c].datashare)
             \/ Credentials[c].tenant_id = Null
          THEN 1 ELSE 0

\* C7's case: tenant t1 is answered with credentials 1 and 3 and not with 2.
C7_Witness ==
  /\ DataUsesAnswered /\ event.tenant = "t1"
  /\ ListedCount(1) = 1 /\ ListedCount(2) = 0 /\ ListedCount(3) = 1

\* C8 as claimed: every listed credential has datashare = true.
C8_ListedAreShared ==
  DataUsesAnswered =>
     \A k \in 1..Len(event.value) : Credentials[event.value[k].id].datashare

\* C8 amended: every listed credential that belongs to a tenant (tenant_id not
\* null) has datashare = true; a credential with tenant_id null is listed
\* whatever its datashare flag is.
C8_ListedTenantCredentialsAreShared ==
  DataUsesAnswered =>
     /\ \A k \in 1..Len(event.value) :
          Credentials[event.value[k].id].tenant_id # Null =>
             Credentials[event.value[k].id].datashare
     /\ \A c \in CredIds : Credentials[c].tenant_id = Null => ListedCount(c) = 1

\* C8's case: the answer lists a credential of the requesting tenant and a
\* credential of no tenant whose datashare flag is false.
C8_Witness ==
  /\ DataUsesAnswered
  /\ \E k \in 1..Len(event.value) : Credentials[event.value[k].id].tenant_id = event.tenant
  /\ \E k \in 1..Len(event.value) :
       /\ Credentials[event.value[k].id].tenant_id = Null
       /\ ~Credentials[event.value[k].id].datashare

\* C9: without a current user every record of the answer has share = true,
\* whatever OptOut rows exist.
C9_NoUserAllShare ==
  (DataUsesAnswered /\ event.user = Null) =>
     \A k \in 1..Len(event.value) : event.value[k].share = TRUE

\* C9's case: an answer without a current user that lists a credential some
\* user has an OptOut row for.
C9_Witness ==
  /\ DataUsesAnswered /\ event.user = Null
  /\ \E k \in 1..Len(event.value) : \E u \in UserIds : RowExists(u, event.value[k].id)

\* C14: isStudentOptedOut has three outcomes, each through its callback: the
\* OptOut record when a row of the pair exists, an absent value without an
\* error when none exists, and the error {code: 500} carrying the store's
\* message when the lookup fails.
C14_ThreeOutcomes ==
  event.op = "isStudentOptedOut" =>
     /\ event.kind = "callback"
     /\ IF event.storeErr # ""
        THEN event.err = Err(500, event.storeErr)
        ELSE /\ event.err = NoErr
             /\ event.value = IF RowExists(event.user, event.cred)
                              THEN OptOutRow(event.user, event.cred)
                              ELSE NoOptOut

\* ------------------------------------------------- claims on getOrCreateCourse
\* A step of a getOrCreateCourse call that was made with a course id and with
\* courseInfo.
CourseCallShown(e) ==
  e.op = "getOrCreateCourse" /\ e.canvasCourseId # "undefined" /\ e.courseInfo.given
\* Column value v holds what field f of courseInfo supplies.
Holds(v, f) == f # "undefined" => v = f

\* C11: a getOrCreateCourse call for a key without a row creates one row with
\* the given name and dashboard URL and returns it; a call for a key that has a
\* row creates no second row, sets the fields courseInfo supplies in that row
\* and returns the row with these fields (the fields not supplied as they were
\* found); a failure of findOrCreate or of the update is answered with a 500
\* error that carries the store's message and changes no row. No key ever has
\* two rows.
C11_CourseUpsert ==
  /\ [](/\ \A k \in CourseKeys : Len(coursesTable[k]) <= 1
        /\ CourseCallShown(event) =>
             LET rows == coursesTable[<<event.canvasCourseId, event.tenantId>>]
                 info == event.courseInfo
             IN /\ event.kind = "callback"
                /\ IF event.storeErr # ""
                   THEN event.err = Err(500, event.storeErr)
                   ELSE /\ event.err = NoErr
                        /\ Len(rows) = 1
                        /\ event.course.canvas_course_id = event.canvasCourseId
                        /\ event.course.tenant_id = event.tenantId
                        /\ Holds(event.course.name, info.name)
                        /\ Holds(event.course.privacydashboard_url, info.privacydashboard_url)
                        /\ Holds(rows[1].name, info.name)
                        /\ Holds(rows[1].privacydashboard_url, info.privacydashboard_url)
                        /\ IF event.wasCreated
                           THEN /\ event.course = rows[1]
                                /\ info.name = "undefined" => event.course.name = Null
                                /\ info.privacydashboard_url = "undefined"
                                     => event.course.privacydashboard_url = Null
                           ELSE /\ info.name = "undefined"
                                     => event.course.name = event.found.name
                                /\ info.privacydashboard_url = "undefined"
                                     => event.course.privacydashboard_url
                                          = event.found.privacydashboard_url)
  /\ [][CourseCallShown(event') =>
          LET key == <<event'.canvasCourseId, event'.tenantId>>
          IN /\ event'.err # NoErr => coursesTable' = coursesTable
             /\ (event'.err = NoErr /\ event'.wasCreated)
                  => Len(coursesTable[key]) = 0 /\ Len(coursesTable'[key]) = 1
             /\ (event'.err = NoErr /\ ~event'.wasCreated)
                  => Len(coursesTable[key]) = 1 /\ Len(coursesTable'[key]) = 1
             /\ \A k \in CourseKeys : k # key => coursesTable'[k] = coursesTable[k]]_vars

\* A second call for a key is answered with the row updated: the row it found
\* had another name, the row returned and the row stored have the new one.
C11_Witness ==
  /\ CourseCallShown(event)
  /\ event.kind = "callback"
  /\ event.err = NoErr
  /\ ~event.wasCreated
  /\ event.found.name # event.courseInfo.name
  /\ event.course.name = event.courseInfo.name
  /\ coursesTable[<<event.canvasCourseId, event.tenantId>>] = <<event.course>>

\* ------------------------------------------------- claims on getTenant
\* A key of exactly 32 alphanumeric characters.
WellFormedKey(k) == k.defined /\ k.alnum /\ k.length = 32

\* C12: getTenant with an ltiKey that is not exactly 32 alphanumeric characters
\* (too short, too long, not alphanumeric, or missing) is answered with a 400
\* error, and the store lookup is issued only with a key that is.
C12_MalformedKeyRejected ==
  /\ tenantCall.pc = "findOne" => WellFormedKey(tenantCall.ltiKey)
  /\ (event.op = "getTenant" /\ ~WellFormedKey(event.ltiKey)) => event.err.code = 400

\* ------------------------------------------------- claims on getOrCreateUser
UserAnswered == event.op = "getOrCreateUser" /\ event.err = NoErr
AtMostOneUserPerKey == \A k \in UserKeys : Len(usersTable[k]) <= 1

\* C10 as claimed: a call that succeeds returns the row of its key carrying the
\* name it was called with (created with it, or updated to it), and there is at
\* most one User row per (external_id, tenant_id).
C10_ReturnsRowWithNewName ==
  /\ AtMostOneUserPerKey
  /\ UserAnswered =>
       /\ event.user = [external_id |-> event.externalId, tenant_id |-> event.tenantId,
                        name |-> event.name]
       /\ usersTable[<<event.externalId, event.tenantId>>] = <<event.user>>

\* C10 amended: there is at most one User row per (external_id, tenant_id); a
\* call that succeeds returns the one stored row of its key, which carries the
\* call's name when the call created it; a row once stored is never changed, so
\* a later call with another name gets the row with the name it was created with.
C10_ReturnsStoredRow ==
  /\ [](/\ AtMostOneUserPerKey
        /\ UserAnswered =>
             /\ usersTable[<<event.externalId, event.tenantId>>] = <<event.user>>
             /\ event.wasCreated =>
                  event.user = [external_id |-> event.externalId,
                                tenant_id |-> event.tenantId, name |-> event.name])
  /\ [][\A k \in UserKeys : usersTable[k] # <<>> => usersTable'[k] = usersTable[k]]_vars

\* C10's case: a call for a key that has a row is answered with that row, whose
\* name is not the name the call passed.
C10_Witness ==
  /\ UserAnswered
  /\ ~event.wasCreated
  /\ event.user.name # event.name
  /\ usersTable[<<event.externalId, event.tenantId>>] = <<event.user>>
====
